---- MODULE Spec2Model ----
(***************************************************************************)
(* Histogram options, histogram statistics snapshots and the front/parent  *)
(* histogram protocol of source/common/stats, with the bootstrap helper    *)
(* Utility::createHistogramOptions of source/common/config/utility.cc.     *)
(*                                                                         *)
(* A C++ double is a decimal <<w, m>> standing for w + m/Milli with        *)
(* 0 <= m < Milli: 0.995 is <<0, 995>>, -1 is <<-1, 0>>.  Strings are      *)
(* sequences of one-character strings.                                     *)
(***************************************************************************)
EXTENDS Integers, Sequences, FiniteSets, TLC

VARIABLES
  optCall,              \* the last HistogramOptions construction call and its arguments
  optResult,            \* what that call produced: an object, or a thrown EnvoyException
  debug,                \* TRUE: a build in which ASSERT aborts; FALSE: ASSERT compiled out
  crashed,              \* the process has aborted (failed ASSERT, or a fatal out-of-bounds access)
  assertsHeld,          \* every ASSERT condition evaluated so far was true
  stats,                \* the HistogramStatisticsImpl objects, by name
  refreshed,            \* per snapshot: the histogram of its last completed refresh (at most one)
  delivered,            \* the store's delivery path: every (histogram, value) handed to it
  drained,              \* how many entries of delivered merge() has drained
  interval_histogram,   \* ParentHistogram's interval sketch
  cumulative_histogram, \* ParentHistogram's cumulative sketch
  merged,               \* ParentHistogram: Empty (FALSE) or Populated (TRUE)
  pc,                   \* where the consolidator stands inside merge()
  last                  \* the most recent call: its name, arguments and return value

vars == <<optCall, optResult, debug, crashed, assertsHeld, stats, refreshed, delivered,
          drained, interval_histogram, cumulative_histogram, merged, pc, last>>

optVars == <<optCall, optResult>>

histVars == <<debug, crashed, assertsHeld, stats, refreshed, delivered, drained,
              interval_histogram, cumulative_histogram, merged, pc, last>>

(***************************************************************************)
(* Bounds of the model.                                                    *)
(***************************************************************************)
MaxSeqLen == 2
MaxValues == 3

(***************************************************************************)
(* Doubles.                                                                *)
(***************************************************************************)
Milli == 1000

D(w, m) == <<w, m>>

\* The double of an integer.
N(n) == <<n, 0>>

Lt(a, b) == a[1] < b[1] \/ (a[1] = b[1] /\ a[2] < b[2])

Le(a, b) == a = b \/ Lt(a, b)

\* 100 * a
Times100(a) == <<100 * a[1] + (100 * a[2]) \div Milli, (100 * a[2]) % Milli>>

\* Sequences over S of length at most n.
SeqsUpTo(S, n) == UNION {[1..k -> S] : k \in 0..n}

\* The numbers a configuration may hold: -1, 0, 0.5, 100, 250.
ConfigDoubles == {N(-1), N(0), D(0, 500), N(100), N(250)}

ConfigSeqs == SeqsUpTo(ConfigDoubles, MaxSeqLen)

(***************************************************************************)
(* HistogramOptionsImpl.                                                   *)
(***************************************************************************)
defaultQuantiles ==
  <<N(0), D(0, 250), D(0, 500), D(0, 750), D(0, 900), D(0, 950), D(0, 990), D(0, 995),
    D(0, 999), N(1)>>

defaultBuckets ==
  <<D(0, 500), N(1), N(5), N(10), N(25), N(50), N(100), N(250), N(500), N(1000),
    N(2500), N(5000), N(10000), N(30000), N(60000), N(300000), N(600000), N(1800000),
    N(3600000)>>

\* The loop's test: quantile < 0.0 || quantile > 100.0.
QuantileNotValid_strict(quantile) == Le(quantile, N(0)) \/ Le(N(100), quantile)

QuantileNotValid(quantile) == Lt(quantile, N(0)) \/ Lt(N(100), quantile)

\* A mutant: only the value at position i is tested.
FirstNotValid_firstOnly(quantiles, i) ==
  IF i <= Len(quantiles) /\ QuantileNotValid(quantiles[i]) THEN <<quantiles[i]>> ELSE <<>>

\* The for loop over quantiles from position i: the first offending value, if any.
RECURSIVE FirstNotValid(_, _)
FirstNotValid(quantiles, i) ==
  IF i > Len(quantiles) THEN <<>>
  ELSE IF QuantileNotValid(quantiles[i]) THEN <<quantiles[i]>>
  ELSE FirstNotValid(quantiles, i + 1)

Thrown(what) == [thrown |-> TRUE, what |-> what, object |-> {}]

Constructed(quantiles, buckets) ==
  [thrown |-> FALSE, what |-> <<>>,
   object |-> {[supported_quantiles_ |-> quantiles, supported_buckets_ |-> buckets]}]

\* A mutant: the defaults are substituted only when both sequences are empty.
HistogramOptionsImpl_both(quantiles, buckets) ==
  IF quantiles # <<>> /\ FirstNotValid(quantiles, 1) # <<>>
  THEN Thrown(FirstNotValid(quantiles, 1))
  ELSE IF quantiles = <<>> /\ buckets = <<>>
       THEN Constructed(defaultQuantiles, defaultBuckets)
       ELSE Constructed(quantiles, buckets)

\* HistogramOptionsImpl(std::vector<double>& quantiles, std::vector<double>& buckets)
HistogramOptionsImpl(quantiles, buckets) ==
  IF quantiles # <<>> /\ FirstNotValid(quantiles, 1) # <<>>
  THEN Thrown(FirstNotValid(quantiles, 1))
  ELSE Constructed(IF quantiles # <<>> THEN quantiles ELSE defaultQuantiles,
                   IF buckets # <<>> THEN buckets ELSE defaultBuckets)

\* HistogramOptionsImpl()
HistogramOptionsImpl0 == Constructed(defaultQuantiles, defaultBuckets)

\* Utility::createHistogramOptions: the configuration's histogram_buckets are copied
\* to a local `buckets`, its histogram_quantiles to a local `quantiles`, and the
\* constructor is called with (buckets, quantiles).
createHistogramOptions(histogram_buckets, histogram_quantiles) ==
  LET buckets == histogram_buckets
      quantiles == histogram_quantiles
  IN  HistogramOptionsImpl(buckets, quantiles)

NoCall == [kind |-> "none", quantiles |-> <<>>, buckets |-> <<>>]

NoResult == [thrown |-> FALSE, what |-> <<>>, object |-> {}]

(***************************************************************************)
(* The approximate histogram (circllhist's histogram_t behind the          *)
(* ApproximateHistogram contract): a count per recorded value.  Every      *)
(* value is its own bin, so the queries are the contract's with no         *)
(* interpolation inside a bin.                                             *)
(***************************************************************************)
Values == {1, 5}

EmptyHist == [v \in Values |-> 0]

RECURSIVE Total(_, _)
Total(h, S) ==
  IF S = {} THEN 0
  ELSE LET v == CHOOSE x \in S : TRUE IN h[v] + Total(h, S \ {v})

RECURSIVE WeightedTotal(_, _)
WeightedTotal(h, S) ==
  IF S = {} THEN 0
  ELSE LET v == CHOOSE x \in S : TRUE IN v * h[v] + WeightedTotal(h, S \ {v})

hist_insert(h, v) == [h EXCEPT ![v] = @ + 1]

hist_accumulate(tgt, src) == [v \in Values |-> tgt[v] + src[v]]

hist_sample_count(h) == N(Total(h, Values))

hist_approx_sum(h) == N(WeightedTotal(h, Values))

hist_approx_count_below(h, threshold) ==
  N(Total(h, {v \in Values : Le(N(v), threshold)}))

\* quantile(q), q in [0,100]: the least recorded value at which the running
\* count reaches q/100 of the total; 0 for an empty histogram.
hist_approx_quantile(h, q) ==
  IF Total(h, Values) = 0 THEN N(0)
  ELSE LET reach == {v \in Values :
                       /\ h[v] > 0
                       /\ Total(h, {u \in Values : u <= v}) * 100 * Milli
                            >= (q[1] * Milli + q[2]) * Total(h, Values)}
       IN  N(CHOOSE v \in reach : \A u \in reach : v <= u)

\* The histograms the statistics objects are constructed and refreshed from.
TestHists == {EmptyHist, hist_insert(EmptyHist, 1), hist_insert(hist_insert(EmptyHist, 1), 5)}

(***************************************************************************)
(* HistogramStatisticsImpl.                                                *)
(***************************************************************************)
\* What an out-of-bounds access can do: end the process, or go unnoticed.
UBOutcomes == {"crash", "survive"}

\* What a read of an uninitialized or out-of-bounds double can yield.
IndeterminateDoubles == {N(0), N(7)}

\* The snapshot's options: the process-wide HistogramOptions.
supportedQuantiles(opts) == opts.supported_quantiles_

supportedBuckets(opts) == opts.supported_buckets_

NoStats ==
  [how |-> "none", computed_quantiles_ |-> <<>>, computed_buckets_ |-> <<>>,
   sample_count_ |-> N(0), sample_sum_ |-> N(0)]

\* HistogramStatisticsImpl(): computed_quantiles_ is sized and zeroed, computed_buckets_
\* is left empty, sample_count_ and sample_sum_ are left uninitialized.
HistogramStatisticsImpl0(opts, count, sum) ==
  [how |-> "default",
   computed_quantiles_ |-> [i \in 1..Len(supportedQuantiles(opts)) |-> N(0)],
   computed_buckets_ |-> <<>>,
   sample_count_ |-> count, sample_sum_ |-> sum]

\* HistogramStatisticsImpl(histogram_ptr, options): neither vector is sized; the
\* quantiles and the bucket counts are written through data() and operator[] of the
\* empty vectors, which leaves their sizes at 0 when the process survives it.
HistogramStatisticsImpl(opts, h) ==
  [how |-> "hist", computed_quantiles_ |-> <<>>, computed_buckets_ |-> <<>>,
   sample_count_ |-> hist_sample_count(h), sample_sum_ |-> hist_approx_sum(h)]

\* Whether the constructor from a histogram writes out of bounds.
CtorOutOfBounds(opts) ==
  Len(supportedQuantiles(opts)) > 0 \/ Len(supportedBuckets(opts)) > 0

\* refresh, statement by statement.
RefreshFill(s) ==
  [s EXCEPT !.computed_quantiles_ = [i \in DOMAIN @ |-> N(0)]]

QuantilesSized(opts, s) == Len(supportedQuantiles(opts)) = Len(s.computed_quantiles_)

\* hist_approx_quantile(h, supportedQuantiles().data(), supportedQuantiles().size(),
\* computed_quantiles_.data()): the elements the vector holds are overwritten, the
\* writes past its end are out of bounds.
RefreshQuantiles(opts, s, h) ==
  [s EXCEPT !.computed_quantiles_ =
     [i \in DOMAIN @ |->
        IF i <= Len(supportedQuantiles(opts))
        THEN hist_approx_quantile(h, supportedQuantiles(opts)[i]) ELSE @[i]]]

\* A mutant: sample_count_ is not recomputed.
RefreshCount_stale(s, h) == s

RefreshCount(s, h) == [s EXCEPT !.sample_count_ = hist_sample_count(h)]

RefreshSum(s, h) == [s EXCEPT !.sample_sum_ = hist_approx_sum(h)]

BucketsSized(opts, s) == Len(supportedBuckets(opts)) = Len(s.computed_buckets_)

\* A mutant: the previous bucket counts are not cleared before the loop appends.
RefreshClear_keep(s) == s

RefreshClear(s) == [s EXCEPT !.computed_buckets_ = <<>>]

\* One turn of the loop: emplace_back of the next bucket's count.
RefreshEmplace(opts, s, h) ==
  [s EXCEPT !.computed_buckets_ =
     Append(@, hist_approx_count_below(h, supportedBuckets(opts)[Len(@) + 1]))]

RECURSIVE RefreshBuckets(_, _, _)
RefreshBuckets(opts, s, h) ==
  IF Len(s.computed_buckets_) >= Len(supportedBuckets(opts)) THEN s
  ELSE RefreshBuckets(opts, RefreshEmplace(opts, s, h), h)

\* refresh(new_histogram_ptr) as one call on snapshot s: the snapshot it leaves,
\* whether its ASSERTs held, and whether the process ended in it (a failed ASSERT
\* in a debug build; an out-of-bounds write that the process did not survive).
refresh(opts, dbg, s, h, ub) ==
  LET s1 == RefreshFill(s)
      a1 == QuantilesSized(opts, s1)
      s2 == RefreshSum(RefreshCount(RefreshQuantiles(opts, s1, h), h), h)
      a2 == BucketsSized(opts, s2)
      s3 == RefreshBuckets(opts, RefreshClear(s2), h)
  IN  IF ~a1 /\ (dbg \/ ub = "crash")
      THEN [snapshot |-> s1, held |-> FALSE, fatal |-> TRUE]
      ELSE IF ~a2 /\ dbg
      THEN [snapshot |-> s2, held |-> FALSE, fatal |-> TRUE]
      ELSE [snapshot |-> s3, held |-> a1 /\ a2, fatal |-> FALSE]

(***************************************************************************)
(* fmt::format and absl::StrJoin.                                          *)
(***************************************************************************)
Digits == <<"0", "1", "2", "3", "4", "5", "6", "7", "8", "9">>

RECURSIVE NatToChars(_)
NatToChars(n) ==
  IF n < 10 THEN <<Digits[n + 1]>>
  ELSE NatToChars(n \div 10) \o <<Digits[(n % 10) + 1]>>

\* The fraction f/unit, 0 <= f < unit, without trailing zeros.
RECURSIVE FracToChars(_, _)
FracToChars(f, unit) ==
  IF f = 0 THEN <<>>
  ELSE <<Digits[(f \div (unit \div 10)) + 1]>> \o FracToChars(f % (unit \div 10), unit \div 10)

\* "{}" of a double: the shortest decimal, no point for a whole number.
FormatDouble(x) ==
  LET a == IF x[1] >= 0 THEN x
           ELSE IF x[2] = 0 THEN <<-x[1], 0>> ELSE <<-x[1] - 1, Milli - x[2]>>
  IN  (IF x[1] < 0 THEN <<"-">> ELSE <<>>)
      \o NatToChars(a[1])
      \o (IF a[2] = 0 THEN <<>> ELSE <<".">> \o FracToChars(a[2], Milli))

\* fmt::format("<prefix>{}: {}", label, value)
FormatPair(prefix, label, value) ==
  <<prefix>> \o FormatDouble(label) \o <<":", " ">> \o FormatDouble(value)

RECURSIVE StrJoin(_, _)
StrJoin(pieces, sep) ==
  IF pieces = <<>> THEN <<>>
  ELSE IF Len(pieces) = 1 THEN pieces[1]
  ELSE pieces[1] \o sep \o StrJoin(Tail(pieces), sep)

\* vec[i], or an indeterminate double when i is past the end of the vector.
At(vec, i, garbage) == IF i <= Len(vec) THEN vec[i] ELSE garbage

quantileSummary(opts, s, garbage) ==
  StrJoin([i \in 1..Len(supportedQuantiles(opts)) |->
             FormatPair("P", Times100(supportedQuantiles(opts)[i]),
                        At(s.computed_quantiles_, i, garbage))],
          <<",", " ">>)

bucketSummary(opts, s, garbage) ==
  StrJoin([i \in 1..Len(supportedBuckets(opts)) |->
             FormatPair("B", supportedBuckets(opts)[i],
                        At(s.computed_buckets_, i, garbage))],
          <<",", " ">>)

\* Whether a summary reads past the end of a computed vector.
QuantileSummaryOutOfBounds(opts, s) ==
  Len(s.computed_quantiles_) < Len(supportedQuantiles(opts))

BucketSummaryOutOfBounds(opts, s) ==
  Len(s.computed_buckets_) < Len(supportedBuckets(opts))

(***************************************************************************)
(* HistogramImpl (the front histogram) and the store's delivery path.      *)
(***************************************************************************)
HistogramName == "h1"

\* Store::deliverHistogramToSinks(histogram, value): the pending-delivery buffer.
deliverHistogramToSinks(log, histogram, value) ==
  Append(log, [histogram |-> histogram, value |-> value])

\* A mutant: the value is delivered twice.
recordValue_twice(log, name, value) ==
  deliverHistogramToSinks(deliverHistogramToSinks(log, name, value), name, value)

\* HistogramImpl::recordValue(value) { parent_.deliverHistogramToSinks(*this, value); }
recordValue(log, name, value) == deliverHistogramToSinks(log, name, value)

\* HistogramImpl::used()
used == TRUE

(***************************************************************************)
(* NullHistogramImpl: a class with no members.                             *)
(***************************************************************************)
\* A mutant: the value is forwarded to the store like a real histogram's.
NullHistogramImpl_recordValue_forwarding(log, value) ==
  deliverHistogramToSinks(log, "", value)

\* void recordValue(uint64_t) override {}
NullHistogramImpl_recordValue(log, value) == log

NullHistogramImpl_used == FALSE

NullHistogramImpl_name == ""

NullHistogramImpl_tagExtractedName == ""

NullHistogramImpl_tags == <<>>

\* What can be observed of a null histogram.
NullHistogramImpl_observable ==
  [name |-> NullHistogramImpl_name, tagExtractedName |-> NullHistogramImpl_tagExtractedName,
   tags |-> NullHistogramImpl_tags, used |-> NullHistogramImpl_used]

(***************************************************************************)
(* State.                                                                  *)
(***************************************************************************)
SnapIds == {"interval", "cumulative", "standalone"}

ParentSnapIds == {"interval", "cumulative"}

Idle == [phase |-> "idle", target |-> "none", step |-> "none"]

At_(target, step) == [phase |-> "refresh", target |-> target, step |-> step]

Resetting == [phase |-> "reset", target |-> "none", step |-> "none"]

Call(op, args, ret) == [op |-> op, args |-> args, ret |-> ret]

\* The process-wide HistogramOptions.
options == CHOOSE o \in optResult.object : TRUE

\* What a reader takes from a snapshot through its four accessors.
View(s) ==
  [computedQuantiles |-> s.computed_quantiles_, computedBuckets |-> s.computed_buckets_,
   sampleCount |-> s.sample_count_, sampleSum |-> s.sample_sum_]

\* The values merge() has not drained yet.
Pending == SubSeq(delivered, drained + 1, Len(delivered))

\* Step (1) of merge(): every pending value is inserted into the interval histogram.
RECURSIVE Drain(_, _)
Drain(h, pending) ==
  IF pending = <<>> THEN h
  ELSE Drain(hist_insert(h, pending[1].value), Tail(pending))

\* The constructions the process is configured with in the histogram specifications.
ProcessCalls ==
  { [kind |-> "default", quantiles |-> <<>>, buckets |-> <<>>],
    [kind |-> "ctor", quantiles |-> <<N(0), N(50), N(100)>>, buckets |-> <<N(1), N(5)>>],
    [kind |-> "config", quantiles |-> <<N(2)>>, buckets |-> <<N(50)>>] }

ResultOf(call) ==
  CASE call.kind = "ctor" -> HistogramOptionsImpl(call.quantiles, call.buckets)
    [] call.kind = "default" -> HistogramOptionsImpl0
    [] call.kind = "config" -> createHistogramOptions(call.buckets, call.quantiles)
    [] OTHER -> NoResult

\* The options specification starts before any options object is constructed.
OptInit ==
  /\ optCall = NoCall
  /\ optResult = NoResult
  /\ debug = FALSE
  /\ crashed = FALSE
  /\ assertsHeld = TRUE
  /\ stats = [id \in SnapIds |-> NoStats]
  /\ refreshed = [id \in SnapIds |-> {}]
  /\ delivered = <<>>
  /\ drained = 0
  /\ interval_histogram = EmptyHist
  /\ cumulative_histogram = EmptyHist
  /\ merged = FALSE
  /\ pc = Idle
  /\ last = Call("none", <<>>, <<>>)

\* The statistics specification starts with the options constructed and no
\* HistogramStatisticsImpl object yet.
StatInit ==
  /\ optCall \in ProcessCalls
  /\ optResult = ResultOf(optCall)
  /\ ~optResult.thrown
  /\ debug \in BOOLEAN
  /\ crashed = FALSE
  /\ assertsHeld = TRUE
  /\ stats = [id \in SnapIds |-> NoStats]
  /\ refreshed = [id \in SnapIds |-> {}]
  /\ delivered = <<>>
  /\ drained = 0
  /\ interval_histogram = EmptyHist
  /\ cumulative_histogram = EmptyHist
  /\ merged = FALSE
  /\ pc = Idle
  /\ last = Call("none", <<>>, <<>>)

\* The histogram specifications start with the options constructed and one
\* ParentHistogram in its Empty state, its two snapshots default-constructed.
Init ==
  /\ optCall \in ProcessCalls
  /\ optResult = ResultOf(optCall)
  /\ ~optResult.thrown
  /\ debug \in BOOLEAN
  /\ crashed = FALSE
  /\ assertsHeld = TRUE
  /\ \E ic \in IndeterminateDoubles, is \in IndeterminateDoubles,
        cc \in IndeterminateDoubles, cs \in IndeterminateDoubles :
       stats = [id \in SnapIds |->
                  IF id = "interval" THEN HistogramStatisticsImpl0(options, ic, is)
                  ELSE IF id = "cumulative" THEN HistogramStatisticsImpl0(options, cc, cs)
                  ELSE NoStats]
  /\ refreshed = [id \in SnapIds |-> {}]
  /\ delivered = <<>>
  /\ drained = 0
  /\ interval_histogram = EmptyHist
  /\ cumulative_histogram = EmptyHist
  /\ merged = FALSE
  /\ pc = Idle
  /\ last = Call("none", <<>>, <<>>)

(***************************************************************************)
(* Constructing options.                                                   *)
(***************************************************************************)
\* The options are constructed once, at process configuration time.
ConstructOptions ==
  /\ optCall = NoCall
  /\ \E quantiles \in ConfigSeqs, buckets \in ConfigSeqs :
       /\ optCall' = [kind |-> "ctor", quantiles |-> quantiles, buckets |-> buckets]
       /\ optResult' = HistogramOptionsImpl(quantiles, buckets)
  /\ UNCHANGED histVars

ConstructDefaultOptions ==
  /\ optCall = NoCall
  /\ optCall' = [kind |-> "default", quantiles |-> <<>>, buckets |-> <<>>]
  /\ optResult' = HistogramOptionsImpl0
  /\ UNCHANGED histVars

CreateHistogramOptions ==
  /\ optCall = NoCall
  /\ \E histogram_buckets \in ConfigSeqs, histogram_quantiles \in ConfigSeqs :
       /\ optCall' = [kind |-> "config", quantiles |-> histogram_quantiles,
                      buckets |-> histogram_buckets]
       /\ optResult' = createHistogramOptions(histogram_buckets, histogram_quantiles)
  /\ UNCHANGED histVars

OptNext == ConstructOptions \/ ConstructDefaultOptions \/ CreateHistogramOptions

OptSpec == OptInit /\ [][OptNext]_vars

(***************************************************************************)
(* Recording values.                                                       *)
(***************************************************************************)
\* A recorder calls recordValue(v) on the front histogram.  Recorders run in
\* parallel with the consolidator, so the call is possible wherever merge() stands.
RecordValue ==
  \E v \in Values :
    /\ ~crashed
    /\ Len(delivered) < MaxValues
    /\ delivered' = recordValue(delivered, HistogramName, v)
    /\ last' = Call("recordValue", <<v>>, <<>>)
    /\ UNCHANGED <<optVars, debug, crashed, assertsHeld, stats, refreshed, drained,
                   interval_histogram, cumulative_histogram, merged, pc>>

\* A recorder calls recordValue(v) on a null histogram; the call returns what can be
\* observed of the histogram afterwards.
NullRecordValue ==
  \E v \in Values :
    /\ ~crashed
    /\ delivered' = NullHistogramImpl_recordValue(delivered, v)
    /\ last' = Call("NullHistogramImpl::recordValue", <<v>>, NullHistogramImpl_observable)
    /\ UNCHANGED <<optVars, debug, crashed, assertsHeld, stats, refreshed, drained,
                   interval_histogram, cumulative_histogram, merged, pc>>

(***************************************************************************)
(* ParentHistogram::merge() as one call.                                   *)
(***************************************************************************)
Merge ==
  \E ub \in UBOutcomes :
    LET ih == Drain(interval_histogram, Pending)
        ch == hist_accumulate(cumulative_histogram, ih)
        ri == refresh(options, debug, stats["interval"], ih, ub)
        rc == refresh(options, debug, stats["cumulative"], ch, ub)
    IN  /\ ~crashed
        /\ pc = Idle
        /\ last' = Call("merge", <<>>, <<>>)
        /\ IF ri.fatal \/ rc.fatal
           THEN /\ crashed' = TRUE
                /\ assertsHeld' = FALSE
                /\ UNCHANGED <<optVars, debug, stats, refreshed, delivered, drained,
                               interval_histogram, cumulative_histogram, merged, pc>>
           ELSE /\ stats' = [stats EXCEPT !["interval"] = ri.snapshot,
                                          !["cumulative"] = rc.snapshot]
                /\ refreshed' = [refreshed EXCEPT !["interval"] = {ih},
                                                  !["cumulative"] = {ch}]
                /\ assertsHeld' = (assertsHeld /\ ri.held /\ rc.held)
                /\ cumulative_histogram' = ch
                /\ interval_histogram' = EmptyHist
                /\ drained' = Len(delivered)
                /\ merged' = TRUE
                /\ UNCHANGED <<optVars, debug, crashed, delivered, pc>>

(***************************************************************************)
(* A HistogramStatisticsImpl object of its own.                            *)
(***************************************************************************)
StatDefaultCtor ==
  \E count \in IndeterminateDoubles, sum \in IndeterminateDoubles :
    /\ ~crashed
    /\ pc = Idle
    /\ stats["standalone"].how = "none"
    /\ stats' = [stats EXCEPT !["standalone"] = HistogramStatisticsImpl0(options, count, sum)]
    /\ last' = Call("HistogramStatisticsImpl", <<>>, <<>>)
    /\ UNCHANGED <<optVars, debug, crashed, assertsHeld, refreshed, delivered, drained,
                   interval_histogram, cumulative_histogram, merged, pc>>

StatHistCtor ==
  \E h \in TestHists, ub \in UBOutcomes :
    /\ ~crashed
    /\ pc = Idle
    /\ stats["standalone"].how = "none"
    /\ last' = Call("HistogramStatisticsImpl", <<h>>, <<>>)
    /\ IF CtorOutOfBounds(options) /\ ub = "crash"
       THEN /\ crashed' = TRUE
            /\ UNCHANGED stats
       ELSE /\ stats' = [stats EXCEPT !["standalone"] = HistogramStatisticsImpl(options, h)]
            /\ UNCHANGED crashed
    /\ UNCHANGED <<optVars, debug, assertsHeld, refreshed, delivered, drained,
                   interval_histogram, cumulative_histogram, merged, pc>>

StatRefresh ==
  \E h \in TestHists, ub \in UBOutcomes :
    LET r == refresh(options, debug, stats["standalone"], h, ub)
    IN  /\ ~crashed
        /\ pc = Idle
        /\ stats["standalone"].how # "none"
        /\ last' = Call("refresh", <<h>>, <<>>)
        /\ assertsHeld' = (assertsHeld /\ r.held)
        /\ IF r.fatal
           THEN /\ crashed' = TRUE
                /\ UNCHANGED <<stats, refreshed>>
           ELSE /\ stats' = [stats EXCEPT !["standalone"] = r.snapshot]
                /\ refreshed' = [refreshed EXCEPT !["standalone"] = {h}]
                /\ UNCHANGED crashed
        /\ UNCHANGED <<optVars, debug, delivered, drained, interval_histogram,
                       cumulative_histogram, merged, pc>>

\* quantileSummary() on a constructed snapshot.  A read past the end of
\* computed_quantiles_ ends the process or yields an indeterminate double.
QuantileSummary ==
  \E id \in {"standalone"}, ub \in UBOutcomes, garbage \in IndeterminateDoubles :
    /\ ~crashed
    /\ pc = Idle
    /\ stats[id].how # "none"
    /\ IF QuantileSummaryOutOfBounds(options, stats[id]) /\ ub = "crash"
       THEN /\ crashed' = TRUE
            /\ last' = Call("quantileSummary", <<id>>, <<>>)
       ELSE /\ last' = Call("quantileSummary", <<id>>,
                            quantileSummary(options, stats[id], garbage))
            /\ UNCHANGED crashed
    /\ UNCHANGED <<optVars, debug, assertsHeld, stats, refreshed, delivered, drained,
                   interval_histogram, cumulative_histogram, merged, pc>>

BucketSummary ==
  \E id \in {"standalone"}, ub \in UBOutcomes, garbage \in IndeterminateDoubles :
    /\ ~crashed
    /\ pc = Idle
    /\ stats[id].how # "none"
    /\ IF BucketSummaryOutOfBounds(options, stats[id]) /\ ub = "crash"
       THEN /\ crashed' = TRUE
            /\ last' = Call("bucketSummary", <<id>>, <<>>)
       ELSE /\ last' = Call("bucketSummary", <<id>>,
                            bucketSummary(options, stats[id], garbage))
            /\ UNCHANGED crashed
    /\ UNCHANGED <<optVars, debug, assertsHeld, stats, refreshed, delivered, drained,
                   interval_histogram, cumulative_histogram, merged, pc>>

StatNext ==
  \/ StatDefaultCtor
  \/ StatHistCtor
  \/ StatRefresh
  \/ QuantileSummary
  \/ BucketSummary

\* One HistogramStatisticsImpl object: constructed, refreshed and summarised.
StatSpec == StatInit /\ [][StatNext]_vars

Next ==
  \/ RecordValue
  \/ NullRecordValue
  \/ Merge

\* One ParentHistogram with its front histogram: values recorded, merge() called.
Spec == Init /\ [][Next]_vars

(***************************************************************************)
(* merge() statement by statement, with a reader beside it.  Nothing in    *)
(* refresh or in the accessors takes a lock, so a reader's accessor calls  *)
(* and a recorder's recordValue may fall between any two statements.       *)
(***************************************************************************)
\* The histogram the snapshot is being refreshed from.
RefreshSource(id) ==
  IF id = "interval" THEN interval_histogram ELSE cumulative_histogram

\* Steps (1) and (2): drain the pending values, fold the interval into the cumulative.
MergeBegin ==
  /\ ~crashed
  /\ pc = Idle
  /\ interval_histogram' = Drain(interval_histogram, Pending)
  /\ cumulative_histogram' = hist_accumulate(cumulative_histogram, interval_histogram')
  /\ drained' = Len(delivered)
  /\ pc' = At_("interval", "fill")
  /\ last' = Call("merge", <<>>, <<>>)
  /\ UNCHANGED <<optVars, debug, crashed, assertsHeld, stats, refreshed, delivered, merged>>

StepFill ==
  /\ ~crashed
  /\ pc.phase = "refresh" /\ pc.step = "fill"
  /\ stats' = [stats EXCEPT ![pc.target] = RefreshFill(@)]
  /\ pc' = At_(pc.target, "quantiles")
  /\ last' = Call("merge", <<>>, <<>>)
  /\ UNCHANGED <<optVars, debug, crashed, assertsHeld, refreshed, delivered, drained,
                 interval_histogram, cumulative_histogram, merged>>

StepQuantiles ==
  \E ub \in UBOutcomes :
    LET sized == QuantilesSized(options, stats[pc.target])
    IN  /\ ~crashed
        /\ pc.phase = "refresh" /\ pc.step = "quantiles"
        /\ assertsHeld' = (assertsHeld /\ sized)
        /\ last' = Call("merge", <<>>, <<>>)
        /\ IF ~sized /\ (debug \/ ub = "crash")
           THEN /\ crashed' = TRUE
                /\ UNCHANGED <<stats, pc>>
           ELSE /\ stats' = [stats EXCEPT ![pc.target] =
                               RefreshQuantiles(options, @, RefreshSource(pc.target))]
                /\ pc' = At_(pc.target, "count")
                /\ UNCHANGED crashed
        /\ UNCHANGED <<optVars, debug, refreshed, delivered, drained, interval_histogram,
                       cumulative_histogram, merged>>

StepCount ==
  /\ ~crashed
  /\ pc.phase = "refresh" /\ pc.step = "count"
  /\ stats' = [stats EXCEPT ![pc.target] = RefreshCount(@, RefreshSource(pc.target))]
  /\ pc' = At_(pc.target, "sum")
  /\ last' = Call("merge", <<>>, <<>>)
  /\ UNCHANGED <<optVars, debug, crashed, assertsHeld, refreshed, delivered, drained,
                 interval_histogram, cumulative_histogram, merged>>

StepSum ==
  /\ ~crashed
  /\ pc.phase = "refresh" /\ pc.step = "sum"
  /\ stats' = [stats EXCEPT ![pc.target] = RefreshSum(@, RefreshSource(pc.target))]
  /\ pc' = At_(pc.target, "clear")
  /\ last' = Call("merge", <<>>, <<>>)
  /\ UNCHANGED <<optVars, debug, crashed, assertsHeld, refreshed, delivered, drained,
                 interval_histogram, cumulative_histogram, merged>>

StepClear ==
  LET sized == BucketsSized(options, stats[pc.target])
  IN  /\ ~crashed
      /\ pc.phase = "refresh" /\ pc.step = "clear"
      /\ assertsHeld' = (assertsHeld /\ sized)
      /\ last' = Call("merge", <<>>, <<>>)
      /\ IF ~sized /\ debug
         THEN /\ crashed' = TRUE
              /\ UNCHANGED <<stats, pc>>
         ELSE /\ stats' = [stats EXCEPT ![pc.target] = RefreshClear(@)]
              /\ pc' = At_(pc.target, "emplace")
              /\ UNCHANGED crashed
      /\ UNCHANGED <<optVars, debug, refreshed, delivered, drained, interval_histogram,
                     cumulative_histogram, merged>>

StepEmplace ==
  /\ ~crashed
  /\ pc.phase = "refresh" /\ pc.step = "emplace"
  /\ Len(stats[pc.target].computed_buckets_) < Len(supportedBuckets(options))
  /\ stats' = [stats EXCEPT ![pc.target] =
                 RefreshEmplace(options, @, RefreshSource(pc.target))]
  /\ last' = Call("merge", <<>>, <<>>)
  /\ UNCHANGED <<optVars, debug, crashed, assertsHeld, refreshed, delivered, drained,
                 interval_histogram, cumulative_histogram, merged, pc>>

\* The loop ends and refresh returns: steps (3) and (4) of merge().
StepDone ==
  /\ ~crashed
  /\ pc.phase = "refresh" /\ pc.step = "emplace"
  /\ Len(stats[pc.target].computed_buckets_) >= Len(supportedBuckets(options))
  /\ refreshed' = [refreshed EXCEPT ![pc.target] = {RefreshSource(pc.target)}]
  /\ pc' = IF pc.target = "interval" THEN At_("cumulative", "fill") ELSE Resetting
  /\ last' = Call("merge", <<>>, <<>>)
  /\ UNCHANGED <<optVars, debug, crashed, assertsHeld, stats, delivered, drained,
                 interval_histogram, cumulative_histogram, merged>>

\* Step (5): the interval histogram is reset and merge() returns.
MergeEnd ==
  /\ ~crashed
  /\ pc = Resetting
  /\ interval_histogram' = EmptyHist
  /\ merged' = TRUE
  /\ pc' = Idle
  /\ last' = Call("merge", <<>>, <<>>)
  /\ UNCHANGED <<optVars, debug, crashed, assertsHeld, stats, refreshed, delivered,
                 drained, cumulative_histogram>>

\* A reader takes intervalStatistics() or cumulativeStatistics() and reads its
\* four accessors.
Read ==
  \E id \in ParentSnapIds :
    /\ ~crashed
    /\ last' = Call("read", <<id>>, <<View(stats[id])>>)
    /\ UNCHANGED <<optVars, debug, crashed, assertsHeld, stats, refreshed, delivered,
                   drained, interval_histogram, cumulative_histogram, merged, pc>>

ConcNext ==
  \/ RecordValue
  \/ MergeBegin
  \/ StepFill
  \/ StepQuantiles
  \/ StepCount
  \/ StepSum
  \/ StepClear
  \/ StepEmplace
  \/ StepDone
  \/ MergeEnd
  \/ Read

\* The consolidator, the recorders and a reader running side by side.
ConcSpec == Init /\ [][ConcNext]_vars

(***************************************************************************)
(* Reading a summary back: what a consumer of the exposition format does.  *)
(***************************************************************************)
IsPrefix(p, s) == Len(p) <= Len(s) /\ SubSeq(s, 1, Len(p)) = p

\* Where sep occurs in text.
Occurrences(text, sep) ==
  {i \in 1..Len(text) : IsPrefix(sep, SubSeq(text, i, Len(text)))}

\* text split at every occurrence of sep, from the left.
RECURSIVE SplitOn(_, _)
SplitOn(text, sep) ==
  LET at == Occurrences(text, sep)
  IN  IF at = {} THEN <<text>>
      ELSE LET first == CHOOSE i \in at : \A j \in at : i <= j
           IN  <<SubSeq(text, 1, first - 1)>>
                 \o SplitOn(SubSeq(text, first + Len(sep), Len(text)), sep)

IsDigit(c) == \E d \in 0..9 : Digits[d + 1] = c

DigitValue(c) == CHOOSE d \in 0..9 : Digits[d + 1] = c

RECURSIVE ParseNat(_, _)
ParseNat(chars, acc) ==
  IF chars = <<>> THEN acc
  ELSE ParseNat(Tail(chars), 10 * acc + DigitValue(Head(chars)))

RECURSIVE Pow10(_)
Pow10(k) == IF k <= 0 THEN 1 ELSE 10 * Pow10(k - 1)

\* Whether chars is a decimal numeral: [-]digits[.digits], at most three decimals.
IsNumeral(chars) ==
  LET body == IF chars # <<>> /\ Head(chars) = "-" THEN Tail(chars) ELSE chars
      parts == SplitOn(body, <<".">>)
  IN  /\ Len(parts) \in {1, 2}
      /\ parts[1] # <<>>
      /\ \A k \in 1..Len(parts) : \A j \in 1..Len(parts[k]) : IsDigit(parts[k][j])
      /\ Len(parts) = 2 => Len(parts[2]) \in 1..3

ParseDouble(chars) ==
  LET neg == chars # <<>> /\ Head(chars) = "-"
      body == IF neg THEN Tail(chars) ELSE chars
      parts == SplitOn(body, <<".">>)
      w == ParseNat(parts[1], 0)
      m == IF Len(parts) = 2
           THEN ParseNat(parts[2], 0) * Pow10(3 - Len(parts[2]))
           ELSE 0
  IN  IF ~neg THEN <<w, m>>
      ELSE IF m = 0 THEN <<-w, 0>> ELSE <<-w - 1, Milli - m>>

(***************************************************************************)
(* Claims.                                                                 *)
(***************************************************************************)
InRange(q) == Le(N(0), q) /\ Le(q, N(100))

AllInRange(quantiles) == \A i \in 1..Len(quantiles) : InRange(quantiles[i])

\* The defaults as the specification lists them.
DocumentedQuantiles ==
  <<N(0), D(0, 250), D(0, 500), D(0, 750), D(0, 900), D(0, 950), D(0, 990), D(0, 995),
    D(0, 999), N(1)>>

DocumentedBuckets ==
  <<D(0, 500), N(1), N(5), N(10), N(25), N(50), N(100), N(250), N(500), N(1000), N(2500),
    N(5000), N(10000), N(30000), N(60000), N(300000), N(600000), N(1800000), N(3600000)>>

\* C1: constructing HistogramOptions from quantiles Q and buckets B succeeds exactly
\* when every element of Q lies in [0,100] (0, 100 and the empty Q accepted); otherwise
\* it throws, naming an element of Q outside the range, and no object is produced,
\* whatever B holds.
C1_ConstructionValidatesQuantiles ==
  optCall.kind = "ctor" =>
    /\ ~optResult.thrown <=> AllInRange(optCall.quantiles)
    /\ ~optResult.thrown => Cardinality(optResult.object) = 1
    /\ optResult.thrown =>
         /\ optResult.object = {}
         /\ \E i \in 1..Len(optCall.quantiles) :
              /\ optResult.what = <<optCall.quantiles[i]>>
              /\ ~InRange(optCall.quantiles[i])

\* C1's case: Q holds the boundary 100 and then 250, B is not empty; the call throws.
C1_Witness ==
  /\ optCall.kind = "ctor"
  /\ optCall.quantiles = <<N(100), N(250)>>
  /\ optCall.buckets = <<N(250)>>
  /\ optResult.thrown
  /\ optResult.what = <<N(250)>>

\* C2 (the claim as the specification states it): createHistogramOptions on a
\* configuration with bucket bounds B and quantile percentiles Q fails only when an
\* element of Q is outside [0,100], and otherwise yields supportedBuckets = B (or the
\* default buckets when B is absent) and supportedQuantiles = Q (or the default
\* quantiles when Q is absent).
C2_ConfigBucketsAndQuantilesKept ==
  optCall.kind = "config" =>
    /\ ~optResult.thrown <=> AllInRange(optCall.quantiles)
    /\ ~optResult.thrown =>
         optResult.object =
           {[supported_quantiles_ |->
               IF optCall.quantiles # <<>> THEN optCall.quantiles ELSE DocumentedQuantiles,
             supported_buckets_ |->
               IF optCall.buckets # <<>> THEN optCall.buckets ELSE DocumentedBuckets]}

\* C3: an empty quantile sequence yields exactly the ten documented default
\* quantiles, an empty bucket sequence exactly the nineteen documented default
\* buckets, each independently of the other (a non-empty sequence is kept as given),
\* and the no-argument constructor yields both defaults.
C3_EmptyInputsYieldDefaults ==
  /\ (optCall.kind = "ctor" /\ ~optResult.thrown) =>
       \A o \in optResult.object :
         /\ o.supported_quantiles_ =
              IF optCall.quantiles = <<>> THEN DocumentedQuantiles ELSE optCall.quantiles
         /\ o.supported_buckets_ =
              IF optCall.buckets = <<>> THEN DocumentedBuckets ELSE optCall.buckets
  /\ optCall.kind = "default" =>
       optResult.object = {[supported_quantiles_ |-> DocumentedQuantiles,
                            supported_buckets_ |-> DocumentedBuckets]}
  /\ Len(DocumentedQuantiles) = 10
  /\ Len(DocumentedBuckets) = 19

\* C3's case: Q empty and B given: the quantiles are defaulted, the buckets kept.
C3_Witness ==
  /\ optCall.kind = "ctor"
  /\ optCall.quantiles = <<>>
  /\ optCall.buckets = <<N(250), N(-1)>>
  /\ optResult.object = {[supported_quantiles_ |-> DocumentedQuantiles,
                          supported_buckets_ |-> <<N(250), N(-1)>>]}

\* What the statistics contract computes from histogram h under options opts.
ContractStatistics(opts, h) ==
  [computedQuantiles |->
     [i \in 1..Len(opts.supported_quantiles_) |->
        hist_approx_quantile(h, opts.supported_quantiles_[i])],
   computedBuckets |->
     [i \in 1..Len(opts.supported_buckets_) |->
        hist_approx_count_below(h, opts.supported_buckets_[i])],
   sampleCount |-> hist_sample_count(h),
   sampleSum |-> hist_approx_sum(h)]

\* C4 (the claim as stated): in every state of a constructed snapshot
\* computedQuantiles is as long as supportedQuantiles and computedBuckets as long as
\* supportedBuckets, and both size ASSERTs of refresh hold on every call.
C4_ComputedLengthsMatchSupported ==
  /\ \A id \in SnapIds :
       stats[id].how # "none" =>
         /\ Len(stats[id].computed_quantiles_) = Len(supportedQuantiles(options))
         /\ Len(stats[id].computed_buckets_) = Len(supportedBuckets(options))
  /\ assertsHeld

\* C5 (the claim as stated): whatever the consolidator is doing, the four fields a
\* reader takes from a snapshot are those one completed refresh left (or the
\* constructor, before the first refresh), or those the refresh in progress will leave.
C5_ReaderSeesOneCompletedRefresh ==
  last.op = "read" =>
    LET id == last.args[1]
        published ==
          IF refreshed[id] = {}
          THEN {View(HistogramStatisticsImpl0(options, c, s)) :
                  c \in IndeterminateDoubles, s \in IndeterminateDoubles}
          ELSE {ContractStatistics(options, h) : h \in refreshed[id]}
        arriving ==
          IF pc.phase = "refresh" /\ pc.target = id
          THEN {ContractStatistics(options, RefreshSource(id))} ELSE {}
    IN  last.ret[1] \in published \cup arriving

\* C6 (the claim as stated): after refresh(h) returns, the snapshot holds exactly
\* what the contract computes from h and the options, whatever it held before.
C6_RefreshRecomputesFromHistogram ==
  (last.op = "refresh" /\ ~crashed) =>
    View(stats["standalone"]) = ContractStatistics(options, last.args[1])

SummaryPairs(text) ==
  LET pieces == SplitOn(text, <<",", " ">>)
  IN  [i \in 1..Len(pieces) |-> SplitOn(pieces[i], <<":", " ">>)]

\* C8 (the claim as stated): quantileSummary() returns one "P<100 x quantile>:
\* <value>" piece per supported quantile and bucketSummary() one "B<bound>: <count>"
\* piece per supported bucket, in order, joined by ", " with nothing before or after,
\* the value of piece i being element i of the computed vector.
C8_SummariesRenderPairsInOrder ==
  /\ last.op = "quantileSummary" =>
       LET s == stats[last.args[1]]
           pieces == SplitOn(last.ret, <<",", " ">>)
       IN  /\ ~crashed
           /\ Len(s.computed_quantiles_) = Len(supportedQuantiles(options))
           /\ Len(pieces) = Len(supportedQuantiles(options))
           /\ \A i \in 1..Len(pieces) :
                pieces[i] = <<"P">> \o FormatDouble(Times100(supportedQuantiles(options)[i]))
                              \o <<":", " ">> \o FormatDouble(s.computed_quantiles_[i])
  /\ last.op = "bucketSummary" =>
       LET s == stats[last.args[1]]
           pieces == SplitOn(last.ret, <<",", " ">>)
       IN  /\ ~crashed
           /\ Len(s.computed_buckets_) = Len(supportedBuckets(options))
           /\ Len(pieces) = Len(supportedBuckets(options))
           /\ \A i \in 1..Len(pieces) :
                pieces[i] = <<"B">> \o FormatDouble(supportedBuckets(options)[i])
                              \o <<":", " ">> \o FormatDouble(s.computed_buckets_[i])

\* C9 (the claim as stated): bucketSummary() read back, split on ", " and then
\* on ": ", gives as many pairs as there are supported buckets, whose bounds (the
\* leading "B" dropped) are the supported buckets in order and whose counts are the
\* computed buckets in order.
C9_BucketSummaryRoundTrip ==
  last.op = "bucketSummary" =>
    LET s == stats[last.args[1]]
        pairs == SummaryPairs(last.ret)
    IN  /\ ~crashed
        /\ Len(pairs) = Len(supportedBuckets(options))
        /\ \A i \in 1..Len(pairs) :
             /\ Len(pairs[i]) = 2
             /\ pairs[i][1] # <<>>
             /\ Head(pairs[i][1]) = "B"
             /\ IsNumeral(Tail(pairs[i][1]))
             /\ IsNumeral(pairs[i][2])
        /\ [i \in 1..Len(pairs) |-> ParseDouble(Tail(pairs[i][1]))] = supportedBuckets(options)
        /\ [i \in 1..Len(pairs) |-> ParseDouble(pairs[i][2])] = s.computed_buckets_

\* C10: a recordValue(v) step appends exactly one entry, this histogram with v
\* itself, to the store's delivery path and changes no histogram state and no
\* snapshot; any step that changes those is a merge(); used() is true throughout.
C10_RecordValueOnlyDelivers ==
  [][/\ last'.op = "recordValue" =>
          /\ delivered' = Append(delivered, [histogram |-> HistogramName,
                                             value |-> last'.args[1]])
          /\ UNCHANGED <<stats, refreshed, interval_histogram, cumulative_histogram,
                         drained, merged>>
     /\ <<stats, refreshed, interval_histogram, cumulative_histogram, drained, merged>>
          # <<stats', refreshed', interval_histogram', cumulative_histogram', drained',
              merged'>>
        => last'.op = "merge"
     /\ used]_vars

\* C10's case: a value recorded on a Populated histogram, after an earlier one was
\* merged.
C10_Witness ==
  /\ last.op = "recordValue"
  /\ last.args = <<5>>
  /\ merged
  /\ drained = 1
  /\ Len(delivered) = 2
  /\ delivered[2] = [histogram |-> HistogramName, value |-> 5]

\* C11: a recordValue(v) step on a null histogram delivers nothing to the store and
\* changes no histogram and no snapshot, whatever v is and whatever was recorded
\* before; what can be observed of the histogram afterwards is used() = false and an
\* empty name, tag-extracted name and tag list, as before the call.
C11_NullHistogramDiscards ==
  [][last'.op = "NullHistogramImpl::recordValue" =>
       /\ UNCHANGED <<delivered, drained, stats, refreshed, interval_histogram,
                      cumulative_histogram, merged>>
       /\ last'.ret = [name |-> "", tagExtractedName |-> "", tags |-> <<>>, used |-> FALSE]
       /\ last.op = "NullHistogramImpl::recordValue" => last'.ret = last.ret]_vars

\* C11's case: after a real histogram delivered one value, the null histogram was
\* handed 5 and the delivery path still holds that one value only.
C11_Witness ==
  /\ last.op = "NullHistogramImpl::recordValue"
  /\ last.args = <<5>>
  /\ Len(delivered) = 1
  /\ delivered[1].histogram = HistogramName

\* The bins of the values delivered so far: a count per value, whatever the order of
\* delivery and whatever merge() calls fell between.
DeliveredBins ==
  [v \in Values |-> Cardinality({i \in 1..Len(delivered) : delivered[i].value = v})]

\* C12: once every delivered value has been merged, the cumulative histogram holds
\* exactly the bins of the delivered values, however the merge() calls split them
\* into intervals, and the cumulative computedQuantiles, computedBuckets and
\* sampleCount are those of these bins; merging the histograms of any two parts of
\* the delivered values gives the same bins in either order.
C12_CumulativeIndependentOfPartition ==
  (merged /\ ~crashed /\ drained = Len(delivered)) =>
    LET expected == ContractStatistics(options, DeliveredBins)
    IN  /\ cumulative_histogram = DeliveredBins
        /\ stats["cumulative"].computed_quantiles_ = expected.computedQuantiles
        /\ stats["cumulative"].computed_buckets_ = expected.computedBuckets
        /\ stats["cumulative"].sample_count_ = expected.sampleCount
        /\ \A k \in 0..Len(delivered) :
             LET a == Drain(EmptyHist, SubSeq(delivered, 1, k))
                 b == Drain(EmptyHist, SubSeq(delivered, k + 1, Len(delivered)))
             IN  /\ hist_accumulate(a, b) = DeliveredBins
                 /\ hist_accumulate(b, a) = DeliveredBins

\* C12's case: the values 1, 5, 1 were delivered and every one of them merged, the
\* last in a merge() of its own.
C12_Witness ==
  /\ merged
  /\ ~crashed
  /\ last.op = "merge"
  /\ Len(delivered) = 3
  /\ drained = 3
  /\ cumulative_histogram = [v \in Values |-> IF v = 1 THEN 2 ELSE 1]
  /\ stats["interval"].sample_count_ = N(1)

Ascending(seq) == \A i \in 1..(Len(seq) - 1) : Le(seq[i], seq[i + 1])

AllPositive(seq) == \A i \in 1..Len(seq) : Lt(N(0), seq[i])

\* C13 (the claim as stated): every options object that construction produces has
\* ascending supportedQuantiles in [0,100] and ascending, positive supportedBuckets,
\* whatever accepted input it was constructed from.
C13_OptionsAscendingAndPositive ==
  ~optResult.thrown =>
    \A o \in optResult.object :
      /\ AllInRange(o.supported_quantiles_)
      /\ Ascending(o.supported_quantiles_)
      /\ Ascending(o.supported_buckets_)
      /\ AllPositive(o.supported_buckets_)

\* C13 (amended): every options object that construction produces has all its
\* supportedQuantiles in [0,100]; the constructor keeps each sequence in the order
\* given, so supportedQuantiles is ascending when the quantiles passed are ascending
\* or empty, and supportedBuckets is ascending and positive when the buckets passed
\* are ascending and positive or empty; the defaults are ascending and the default
\* buckets positive.
C13_OptionsKeepOrderOfInputs ==
  ~optResult.thrown =>
    \A o \in optResult.object :
      /\ AllInRange(o.supported_quantiles_)
      /\ optCall.kind \in {"ctor", "default"} =>
           /\ Ascending(optCall.quantiles) => Ascending(o.supported_quantiles_)
           /\ (Ascending(optCall.buckets) /\ AllPositive(optCall.buckets)) =>
                (Ascending(o.supported_buckets_) /\ AllPositive(o.supported_buckets_))

\* C13's case: the constructor accepted descending quantiles and descending buckets
\* with a negative bound, and kept both as given.
C13_Witness ==
  /\ optCall.kind = "ctor"
  /\ optCall.quantiles = <<N(100), N(0)>>
  /\ optCall.buckets = <<N(250), N(-1)>>
  /\ optResult.object = {[supported_quantiles_ |-> <<N(100), N(0)>>,
                          supported_buckets_ |-> <<N(250), N(-1)>>]}

\* The labels of a quantile summary read back: the number after each "P".
SummaryLabels(text) ==
  LET pairs == SummaryPairs(text)
  IN  [i \in 1..Len(pairs) |-> ParseDouble(Tail(pairs[i][1]))]

IsFraction(q) == Le(N(0), q) /\ Le(q, N(1))

\* C14 (the claim as stated): under every accepted options object, every label P<n>
\* that quantileSummary() renders has 0 <= n <= 100, and every quantile that the
\* constructor from a histogram and refresh hand to the sketch's quantile query is a
\* fraction in [0,1], the scale of the built-in defaults.
C14_QuantileScalesAgree ==
  /\ (last.op = "quantileSummary" /\ ~crashed) =>
       \A i \in 1..Len(SummaryLabels(last.ret)) : InRange(SummaryLabels(last.ret)[i])
  /\ (last.op = "refresh" /\ ~crashed) =>
       \A i \in 1..Len(supportedQuantiles(options)) :
         IsFraction(supportedQuantiles(options)[i])

\* C15 (the claim as stated): a default-constructed snapshot that was never refreshed
\* reports sampleCount = 0, sampleSum = 0, a 0 for every supported quantile and a 0
\* for every supported bucket, which is what a refresh from the empty histogram
\* leaves.
C15_UnrefreshedSnapshotIsEmpty ==
  \A id \in SnapIds :
    (stats[id].how = "default" /\ refreshed[id] = {} /\ ~crashed) =>
      /\ View(stats[id]) =
           [computedQuantiles |-> [i \in 1..Len(supportedQuantiles(options)) |-> N(0)],
            computedBuckets |-> [i \in 1..Len(supportedBuckets(options)) |-> N(0)],
            sampleCount |-> N(0), sampleSum |-> N(0)]
      /\ View(stats[id]) = ContractStatistics(options, EmptyHist)

====
